---------------------------- MODULE Spec2Model ----------------------------
(***************************************************************************)
(* The WhatsApp session server (src/unnamed/part_000, and its earlier      *)
(* variant src/index.js): one global client handle, three flags, the       *)
(* /initialize, /close, /send-message and /send-message_media handlers,    *)
(* the four client signals and the PQueue of concurrency 3.                *)
(*                                                                         *)
(* Node runs one callback at a time.  A step of the model is one callback  *)
(* run to its next real suspension point (a wait on I/O or on a timer)     *)
(* together with the promise continuations it triggers, since these drain  *)
(* before the next callback.  The suspension points are: client.destroy(), *)
(* chromium.executablePath, client.initialize(), the 5 s retry timer,      *)
(* qrcode.toDataURL(), axios.get() and client.sendMessage().               *)
(*                                                                         *)
(* The client library and the network are the environment: a startup, a    *)
(* fetch or a send resolves or rejects, and a handle whose startup was     *)
(* invoked and whose teardown was not emits its four signals at any time.  *)
(* A teardown always resolves.                                             *)
(***************************************************************************)
EXTENDS Naturals, Sequences, FiniteSets

\* ---------------------------------------------------------------- bounds
\* Requests issued and handles constructed in the session scenarios (Spec).
MaxInits == 2
MaxCloses == 2
MaxSends == 1
\* Requests issued in the dispatch scenarios (SpecQueue).
QCloses == 1
QSends == 5
\* Requests issued in the dispatch scenarios with fairness (SpecQueueFair).
FCloses == 1
FSends == 4
MaxHandles == 2
\* Close requests issued and handles constructed in the retry scenarios
\* (SpecRetry), which leave room for a full retry loop.
RCloses == 1
RHandles == 3
\* Requests issued in the scenarios that vary the phone and the message
\* (SpecText).
TCloses == 1
TSends == 2

\* ------------------------------------------------------ program constants
\* new PQueue.default({ concurrency: 3 })
Concurrency == 3
\* initializeWhatsAppClient(retries = 3)
DefaultRetries == 3

\* null, as the value of client and as the value of qrCodeData.
NULL == 0
NoQr == "null"
\* What qrcode.toDataURL(qr) resolves to: a data URL, never null.
DataUrl == "data:image/png;base64"
Suffix == "@c.us"
FileUrls == {"http://host/pic.png"}
Kinds == {"text", "media"}

Max(a, b) == IF a >= b THEN a ELSE b
Handles == 1..Max(MaxHandles, RHandles)
InitIds == 1..MaxInits
CloseIds == 1..Max(Max(MaxCloses, RCloses), Max(QCloses, Max(FCloses, TCloses)))
JobIds == 1..Max(Max(MaxSends, TSends), Max(QSends, FSends))

VARIABLES
    program,         \* which source file runs: "part_000" or "index.js"
    lim,             \* how many requests of each kind the scenario issues
    client,          \* let client: NULL or a handle
    qrCodeData,      \* let qrCodeData: NoQr or the data URL of a challenge
    isClientReady,   \* let isClientReady
    isInitializing,  \* let isInitializing
    hstat,           \* each handle: none, starting, up, failed, closing, destroyed
    ndestroy,        \* each handle: how many times destroy() was invoked on it
    qrEnc,           \* the 'qr' callbacks with a toDataURL in flight
    nextHandle,      \* the next handle new Client(...) constructs
    init,            \* each /initialize request
    close,           \* each /close request
    job,             \* each send request
    queue            \* the PQueue: its waiting jobs and its running count

vars == <<program, lim, client, qrCodeData, isClientReady, isInitializing,
          hstat, ndestroy, qrEnc, nextHandle, init, close, job, queue>>

\* req.query.phone and req.query.message: one value of each, or two where the
\* scenario varies them.
Phones == IF lim.wide THEN {"5551234567", "5559876543"} ELSE {"5551234567"}
Messages == IF lim.wide THEN {"hi", "bye"} ELSE {"hi"}

sessionVars == <<client, qrCodeData, isClientReady, isInitializing>>
handleVars == <<hstat, ndestroy, qrEnc, nextHandle>>

\* The four module-level variables as one value, so that the statements of
\* one callback compose in order.
G == [client |-> client, qrCodeData |-> qrCodeData,
      isClientReady |-> isClientReady, isInitializing |-> isInitializing]

SetG(g) ==
    /\ client' = g.client
    /\ qrCodeData' = g.qrCodeData
    /\ isClientReady' = g.isClientReady
    /\ isInitializing' = g.isInitializing

\* retries: part_000 loops DefaultRetries times, index.js starts the client once.
Retries == IF program = "part_000" THEN DefaultRetries ELSE 1

\* A handle that can emit signals and answer: startup invoked, no teardown.
Live(h) == hstat[h] \in {"starting", "up"}
\* A handle that was constructed and never torn down.
Held(h) == hstat[h] \in {"starting", "up", "failed"}

\* ------------------------------------------------- closeWhatsAppSession
\* client.destroy() is invoked: the handle's teardown begins.
DestroyInvoked(hs, h) ==
    [hs EXCEPT ![h] = IF @ = "destroyed" THEN @ ELSE "closing"]

\* `client = null` after the awaited destroy().
ClearClient(g) == [g EXCEPT !.client = NULL]

\* A closeWhatsAppSession that forgets `qrCodeData = null`.
ResetSessionKeepsQr(g) ==
    [g EXCEPT !.isClientReady = FALSE, !.isInitializing = FALSE]

\* The three unconditional resets that end closeWhatsAppSession.
ResetSession(g) ==
    [g EXCEPT !.isClientReady = FALSE, !.isInitializing = FALSE,
              !.qrCodeData = NoQr]

\* closeWhatsAppSession from the resolution of destroy() to its return.
closeWhatsAppSessionTail(g) == ResetSession(ClearClient(g))

\* ------------------------------------------------------ /initialize
\* A guard that forgets isInitializing.
MustCloseWhenReady(g) == g.isClientReady

\* `if (isInitializing || isClientReady)`: whether the handler closes first.
MustClose(g) == g.isInitializing \/ g.isClientReady

\* isInitializing = true; isClientReady = false; qrCodeData = null
BeginInitialize(g) ==
    [g EXCEPT !.isInitializing = TRUE, !.isClientReady = FALSE,
              !.qrCodeData = NoQr]

\* finally { isInitializing = false }
EndInitialize(g) == [g EXCEPT !.isInitializing = FALSE]

\* An /initialize request.  i: the retry loop's counter; h: the handle it
\* awaits; busy, prior: isInitializing || isClientReady and client as the
\* request found them; starts, delays: the startups it invoked and the retry
\* delays it began; result, nresp: its first answer and how many it wrote.
NewInit ==
    [pc |-> "idle", i |-> 0, h |-> NULL, busy |-> FALSE, prior |-> NULL,
     starts |-> 0, delays |-> 0, result |-> "none", nresp |-> 0]

Arrived(p) == init[p].pc # "idle"
\* Requests arrive in the order of their numbers.
NextInit(p) ==
    /\ init[p].pc = "idle"
    /\ p <= lim.inits
    /\ IF p = 1 THEN TRUE ELSE Arrived(p - 1)

\* The session as an arriving /initialize request finds it.
Found(r) == [r EXCEPT !.busy = isInitializing \/ isClientReady, !.prior = client]

\* GET /initialize arrives and runs to its first suspension point.
InitializeCall(p) ==
    /\ NextInit(p)
    /\ IF MustClose(G) /\ client # NULL
         THEN \* await client.destroy()
              /\ hstat' = DestroyInvoked(hstat, client)
              /\ ndestroy' = [ndestroy EXCEPT ![client] = @ + 1]
              /\ init' = [init EXCEPT ![p] = [Found(@) EXCEPT !.pc = "closing",
                                                               !.h = client]]
              /\ UNCHANGED sessionVars
         ELSE \* await chromium.executablePath
              /\ SetG(BeginInitialize(IF MustClose(G) THEN ResetSession(G) ELSE G))
              /\ init' = [init EXCEPT ![p] = [Found(@) EXCEPT !.pc = "preCreate"]]
              /\ UNCHANGED <<hstat, ndestroy>>
    /\ UNCHANGED <<program, lim, qrEnc, nextHandle, close, job, queue>>

\* The handler's destroy() resolves; it goes on to chromium.executablePath.
InitializeClosed(p) ==
    /\ init[p].pc = "closing"
    /\ hstat' = [hstat EXCEPT ![init[p].h] = "destroyed"]
    /\ SetG(BeginInitialize(closeWhatsAppSessionTail(G)))
    /\ init' = [init EXCEPT ![p].pc = "preCreate", ![p].h = NULL]
    /\ UNCHANGED <<program, lim, ndestroy, qrEnc, nextHandle, close, job, queue>>

\* A retry loop that gives up after its delay when a close has cleared
\* isInitializing.
ResumesUnlessClosed(r, g) ==
    r.pc = "preCreate" \/ (r.pc = "delay" /\ g.isInitializing)

\* Whether the request goes on to `client = new Client(...)`: it does from
\* its first chromium.executablePath and from every retry timer, whatever the
\* session variables g hold by then.
Resumes(r, g) == r.pc \in {"preCreate", "delay"}

\* client = new Client(...); the four client.on(...); client.initialize() is
\* invoked and awaited.  Reached from chromium.executablePath (first attempt)
\* and from the retry timer followed by chromium.executablePath (later ones).
CreateClient(p) ==
    /\ Resumes(init[p], G)
    /\ nextHandle <= lim.handles
    /\ client' = nextHandle
    /\ hstat' = [hstat EXCEPT ![nextHandle] = "starting"]
    /\ nextHandle' = nextHandle + 1
    /\ init' = [init EXCEPT ![p].pc = "startup", ![p].h = nextHandle,
                            ![p].i = IF init[p].pc = "delay" THEN @ + 1 ELSE @,
                            ![p].starts = @ + 1]
    /\ UNCHANGED <<program, lim, qrCodeData, isClientReady, isInitializing,
                   ndestroy, qrEnc, close, job, queue>>

\* res.json(...) / res.status(...).json(...) of an /initialize request; nresp
\* counts the responses written: 0, 1, or 2 for two and more.
Respond(r, result) ==
    [r EXCEPT !.nresp = IF @ < 2 THEN @ + 1 ELSE @, !.result = IF @ = "none" THEN result ELSE @]

\* client.initialize() resolves: return true, the success response, finally.
StartupResolves(p) ==
    /\ init[p].pc = "startup"
    /\ hstat[init[p].h] = "starting"
    /\ hstat' = [hstat EXCEPT ![init[p].h] = "up"]
    /\ init' = [init EXCEPT ![p] = [Respond(@, "ok") EXCEPT !.pc = "done"]]
    /\ SetG(EndInitialize(G))
    /\ UNCHANGED <<program, lim, ndestroy, qrEnc, nextHandle, close, job, queue>>

\* A loop that compares against retries instead of retries - 1.
LastAttemptLate(i) == i = Retries

\* `if (i === retries - 1) throw error`
LastAttempt(i) == i = Retries - 1

\* client.initialize() rejects: the catch of the retry loop.
StartupRejects(p) ==
    /\ init[p].pc = "startup"
    /\ hstat' = [hstat EXCEPT ![init[p].h] = IF @ = "starting" THEN "failed" ELSE @]
    /\ IF LastAttempt(init[p].i)
         THEN \* throw error: the handler's catch and finally
              /\ init' = [init EXCEPT ![p] =
                            [Respond(@, "fail") EXCEPT !.pc = "done"]]
              /\ SetG(EndInitialize(G))
         ELSE \* await new Promise(resolve => setTimeout(resolve, 5000))
              /\ init' = [init EXCEPT ![p].pc = "delay", ![p].delays = @ + 1]
              /\ UNCHANGED sessionVars
    /\ UNCHANGED <<program, lim, ndestroy, qrEnc, nextHandle, close, job, queue>>

\* ------------------------------------------------------------ /close
\* A /close request.  h: the handle whose destroy() it awaits; tore: whether
\* it invoked destroy(); delayed: whether an /initialize was inside its retry
\* delay when the request completed.
NewClose == [pc |-> "idle", h |-> NULL, tore |-> FALSE, delayed |-> FALSE]

InDelay == \E p \in InitIds : init[p].pc = "delay"

NextClose(c) ==
    /\ close[c].pc = "idle"
    /\ c <= lim.closes
    /\ IF c = 1 THEN TRUE ELSE close[c - 1].pc # "idle"

\* GET /close arrives.
CloseCall(c) ==
    /\ NextClose(c)
    /\ IF client # NULL
         THEN /\ hstat' = DestroyInvoked(hstat, client)
              /\ ndestroy' = [ndestroy EXCEPT ![client] = @ + 1]
              /\ close' = [close EXCEPT ![c].pc = "closing", ![c].h = client,
                                        ![c].tore = TRUE]
              /\ UNCHANGED sessionVars
         ELSE /\ SetG(ResetSession(G))
              /\ close' = [close EXCEPT ![c].pc = "done", ![c].delayed = InDelay]
              /\ UNCHANGED <<hstat, ndestroy>>
    /\ UNCHANGED <<program, lim, qrEnc, nextHandle, init, job, queue>>

\* The handler's destroy() resolves; res.json({message}).
CloseDone(c) ==
    /\ close[c].pc = "closing"
    /\ hstat' = [hstat EXCEPT ![close[c].h] = "destroyed"]
    /\ SetG(closeWhatsAppSessionTail(G))
    /\ close' = [close EXCEPT ![c].pc = "done", ![c].delayed = InDelay]
    /\ UNCHANGED <<program, lim, ndestroy, qrEnc, nextHandle, init, job, queue>>

\* ------------------------------------------------------------ signals
\* The /initialize request whose handler constructed h.
Owner(h) == CHOOSE p \in InitIds : init[p].h = h /\ init[p].pc \in {"startup", "done"}

\* What the 'qr' callback of h closes over: in index.js the res of the request
\* that constructed h, in part_000 nothing.
QrClosure(h) == IF program = "index.js" THEN Owner(h) ELSE NULL

\* client.on('qr'): qrcode.toDataURL(qr) is invoked and awaited.
OnQr(h) ==
    /\ Live(h)
    /\ qrEnc' = qrEnc \cup {QrClosure(h)}
    /\ UNCHANGED <<program, lim, sessionVars, hstat, ndestroy, nextHandle,
                   init, close, job, queue>>

\* One awaited toDataURL resolves (others of the same callback may remain in
\* flight): qrCodeData is assigned; index.js also answers, on the res it holds.
QrEncoded(k) ==
    /\ k \in qrEnc
    /\ \E more \in BOOLEAN : qrEnc' = IF more THEN qrEnc ELSE qrEnc \ {k}
    /\ qrCodeData' = DataUrl
    /\ init' = IF k # NULL THEN [init EXCEPT ![k] = Respond(@, "qr")] ELSE init
    /\ UNCHANGED <<program, lim, client, isClientReady, isInitializing, hstat,
                   ndestroy, nextHandle, close, job, queue>>

\* client.on('ready')
OnReady(h) ==
    /\ Live(h)
    /\ isClientReady' = TRUE
    /\ qrCodeData' = NoQr
    /\ UNCHANGED <<program, lim, client, isInitializing, handleVars, init,
                   close, job, queue>>

\* An 'auth_failure' callback that also drops readiness.
OnAuthFailureResets(h) ==
    /\ Live(h)
    /\ isClientReady' = FALSE
    /\ UNCHANGED <<program, lim, client, qrCodeData, isInitializing, handleVars,
                   init, close, job, queue>>

\* client.on('auth_failure'): console.error only.
OnAuthFailure(h) ==
    /\ Live(h)
    /\ UNCHANGED vars

\* client.on('disconnected')
OnDisconnected(h) ==
    /\ Live(h)
    /\ isClientReady' = FALSE
    /\ UNCHANGED <<program, lim, client, qrCodeData, isInitializing, handleVars,
                   init, close, job, queue>>

\* ------------------------------------------------------------ the queue
\* queue.q: the jobs waiting in the PQueue, oldest first; queue.pending: the
\* jobs it is running (p-queue's pending count).
EmptyQueue == [q |-> <<>>, pending |-> 0]

\* A send request.  got: what became of the fetch; sent: the
\* client.sendMessage(...) calls the job made, in order.
NewJob ==
    [pc |-> "new", kind |-> "none", phone |-> "", message |-> "", got |-> "none",
     sent |-> <<>>]

\* A request that was answered.  Where the scenario keeps no history of
\* answered requests, only the answer is kept.
Answered(r, outcome) ==
    IF lim.history THEN [r EXCEPT !.pc = outcome] ELSE [NewJob EXCEPT !.pc = outcome]

\* A chatId without the suffix.
ChatIdBare(phone) == phone

\* const chatId = `${phone}@c.us`
ChatId(phone) == phone \o Suffix

\* The second argument of client.sendMessage: the message of the request, or
\* the MessageMedia built from the fetched file.
Content(r, what) == IF what = "text" THEN r.message ELSE "MessageMedia"

\* One client.sendMessage(chatId, content) call: the value of client (h), the
\* destination, the kind of content and the content, whether h was a handle
\* with no teardown begun, and whether the call is pending, ok or rejected.
\* On a null client the call throws a TypeError.
Sending(h, to, what, body) ==
    [h |-> h, to |-> to, what |-> what, body |-> body,
     live |-> IF h = NULL THEN FALSE ELSE Live(h),
     st |-> IF h = NULL THEN "threw" ELSE "pending"]

\* The job and queue state as one value, threaded through a callback.
Q == [job |-> job, q |-> queue.q, pending |-> queue.pending]

SetQ(s) ==
    /\ job' = s.job
    /\ queue' = [q |-> s.q, pending |-> s.pending]

\* A queue that does not take the slot of a failed job back.
SettleLeaksFailed(s, j, outcome) ==
    [s EXCEPT !.job[j] = Answered(@, outcome),
              !.pending = IF outcome = "fail" THEN @ ELSE @ - 1]

\* A job's promise settles: the handler answers (200 or 500) and the queue
\* takes its slot back (p-queue's _next).
Settle(s, j, outcome) ==
    [s EXCEPT !.job[j] = Answered(@, outcome), !.pending = @ - 1]

\* await client.sendMessage(chatId, content) is reached in job j with the
\* current client c: a null client throws and fails the job.
InvokeSend(s, j, c, what) ==
    LET r == s.job[j]
        t == [s EXCEPT !.job[j].sent =
                 Append(@, Sending(c, ChatId(r.phone), what, Content(r, what)))]
    IN  IF c = NULL THEN Settle(t, j, "fail") ELSE [t EXCEPT !.job[j].pc = what]

\* A media job that sends the media before the text.
FirstContentMedia == "media"

\* The content of a media job's first and second sendMessage.
FirstContent == "text"
SecondContent == "media"

\* The queue starts job j: its function runs to its first suspension point.
StartJob(s, j, c) ==
    LET t == [s EXCEPT !.pending = @ + 1] IN
    IF s.job[j].kind = "text"
      THEN InvokeSend(t, j, c, "text")
      ELSE \* await axios.get(fileUrl, ...)
           [t EXCEPT !.job[j].pc = "fetch"]

\* A limit that is off by one.
SlotFreeInclusive(s) == s.pending <= Concurrency

\* Whether the queue may start another job.
SlotFree(s) == s.pending < Concurrency

\* A queue that starts the newest waiting job.
DequeueNewest(q) == Len(q)

\* The position in the waiting jobs of the one the queue starts next.
DequeueAt(q) == 1

\* q without its element at position k.
Without(q, k) == [n \in 1..(Len(q) - 1) |-> IF n < k THEN q[n] ELSE q[n + 1]]

\* p-queue's _tryToStartAnother, repeated while a job that is started fails
\* at once and so frees its slot again.
RECURSIVE Drain(_, _)
Drain(s, c) ==
    IF s.q # <<>> /\ SlotFree(s)
      THEN Drain(StartJob([s EXCEPT !.q = Without(s.q, DequeueAt(s.q))],
                          s.q[DequeueAt(s.q)], c), c)
      ELSE s

\* queue.add(fn)
Add(s, j, c) == Drain([s EXCEPT !.q = Append(@, j)], c)

\* A handler without the readiness check.
NotReadyIgnored(g) == FALSE

\* `if (!isClientReady) return res.status(503)`
NotReady(g) == ~g.isClientReady

NextJob(j) ==
    /\ job[j].pc = "new"
    /\ j <= lim.sends
    /\ IF j = 1 THEN TRUE ELSE job[j - 1].pc # "new"

\* GET /send-message (kind text) or /send-message_media (kind media) arrives.
\* A missing phone, message or fileUrl is the empty string.
SendCall(j, kind, phone, message, fileUrl) ==
    /\ NextJob(j)
    /\ IF phone = "" \/ message = "" \/ (kind = "media" /\ fileUrl = "")
         THEN job' = [job EXCEPT ![j] = Answered(@, "r400")] /\ UNCHANGED queue
         ELSE IF NotReady(G)
                THEN job' = [job EXCEPT ![j] = Answered(@, "r503")] /\ UNCHANGED queue
                ELSE SetQ(Add([Q EXCEPT !.job[j] = [NewJob EXCEPT !.pc = "queued",
                                                      !.kind = kind, !.phone = phone,
                                                      !.message = message]],
                              j, client))
    /\ UNCHANGED <<program, lim, sessionVars, handleVars, init, close>>

\* axios.get resolves: the media is built and the first send is invoked.
FetchResolves(j) ==
    /\ job[j].pc = "fetch"
    /\ SetQ(Drain(InvokeSend([Q EXCEPT !.job[j].got = "ok"], j, client, FirstContent),
                  client))
    /\ UNCHANGED <<program, lim, sessionVars, handleVars, init, close>>

\* axios.get rejects: the job fails.
FetchRejects(j) ==
    /\ job[j].pc = "fetch"
    /\ SetQ(Drain(Settle([Q EXCEPT !.job[j].got = "failed"], j, "fail"), client))
    /\ UNCHANGED <<program, lim, sessionVars, handleVars, init, close>>

\* The job's pending send, and the job state with that send settled.
Pending(j) == job[j].sent[Len(job[j].sent)]
SendSettled(j, st) == [Q EXCEPT !.job[j].sent[Len(job[j].sent)].st = st]

\* The text send resolves: a text job is done, a media job sends the media.
TextSendResolves(j) ==
    /\ job[j].pc = "text"
    /\ Live(Pending(j).h)
    /\ SetQ(Drain(IF job[j].kind = "text"
                    THEN Settle(SendSettled(j, "ok"), j, "ok")
                    ELSE InvokeSend(SendSettled(j, "ok"), j, client, SecondContent),
                  client))
    /\ UNCHANGED <<program, lim, sessionVars, handleVars, init, close>>

\* The media send resolves: the media job is done.
MediaSendResolves(j) ==
    /\ job[j].pc = "media"
    /\ Live(Pending(j).h)
    /\ SetQ(Drain(Settle(SendSettled(j, "ok"), j, "ok"), client))
    /\ UNCHANGED <<program, lim, sessionVars, handleVars, init, close>>

\* A send rejects: the job fails.
SendRejects(j) ==
    /\ job[j].pc \in {"text", "media"}
    /\ SetQ(Drain(Settle(SendSettled(j, "rejected"), j, "fail"), client))
    /\ UNCHANGED <<program, lim, sessionVars, handleVars, init, close>>

\* ------------------------------------------------------------ system
InitState(prog, l) ==
    /\ program = prog
    /\ lim = l
    /\ client = NULL
    /\ qrCodeData = NoQr
    /\ isClientReady = FALSE
    /\ isInitializing = FALSE
    /\ hstat = [h \in Handles |-> "none"]
    /\ ndestroy = [h \in Handles |-> 0]
    /\ qrEnc = {}
    /\ nextHandle = 1
    /\ init = [p \in InitIds |-> NewInit]
    /\ close = [c \in CloseIds |-> NewClose]
    /\ job = [j \in JobIds |-> NewJob]
    /\ queue = EmptyQueue

Init ==
    InitState("part_000", [inits |-> MaxInits, closes |-> MaxCloses,
                           sends |-> MaxSends, handles |-> MaxHandles,
                           history |-> TRUE, wide |-> FALSE])

Next ==
    \/ \E p \in InitIds : InitializeCall(p)
    \/ \E p \in InitIds : InitializeClosed(p)
    \/ \E p \in InitIds : CreateClient(p)
    \/ \E p \in InitIds : StartupResolves(p)
    \/ \E p \in InitIds : StartupRejects(p)
    \/ \E c \in CloseIds : CloseCall(c)
    \/ \E c \in CloseIds : CloseDone(c)
    \/ \E h \in Handles : OnQr(h)
    \/ \E k \in InitIds \cup {NULL} : QrEncoded(k)
    \/ \E h \in Handles : OnReady(h)
    \/ \E h \in Handles : OnAuthFailure(h)
    \/ \E h \in Handles : OnDisconnected(h)
    \/ \E j \in JobIds, kind \in Kinds, phone \in Phones \cup {""},
          message \in Messages \cup {""}, fileUrl \in FileUrls \cup {""} :
          SendCall(j, kind, phone, message, fileUrl)
    \/ \E j \in JobIds : FetchResolves(j)
    \/ \E j \in JobIds : FetchRejects(j)
    \/ \E j \in JobIds : TextSendResolves(j)
    \/ \E j \in JobIds : MediaSendResolves(j)
    \/ \E j \in JobIds : SendRejects(j)

Spec == Init /\ [][Next]_vars

\* The earlier variant of the server, src/index.js.
InitIndex ==
    InitState("index.js", [inits |-> MaxInits, closes |-> RCloses,
                           sends |-> MaxSends, handles |-> MaxHandles,
                           history |-> TRUE, wide |-> FALSE])
SpecIndex == InitIndex /\ [][Next]_vars

InitRetry ==
    InitState("part_000", [inits |-> MaxInits, closes |-> RCloses,
                           sends |-> MaxSends, handles |-> RHandles,
                           history |-> TRUE, wide |-> FALSE])
SpecRetry == InitRetry /\ [][Next]_vars

\* A burst of send requests against an established session: the state after
\* one /initialize whose startup resolved before its handle signalled ready
\* (so isInitializing and isClientReady were both false), a second /initialize
\* that therefore closed nothing and replaced the handle, and a ready signal.
\* Handle 1 is still up; no further /initialize arrives during the burst.
EstablishedWith(l) ==
    /\ program = "part_000"
    /\ lim = l
    /\ client = 2
    /\ qrCodeData = NoQr
    /\ isClientReady = TRUE
    /\ isInitializing = FALSE
    /\ hstat = [h \in Handles |-> IF h <= 2 THEN "up" ELSE "none"]
    /\ ndestroy = [h \in Handles |-> 0]
    /\ qrEnc = {}
    /\ nextHandle = 3
    /\ init = [p \in InitIds |->
                 IF p <= 2 THEN [NewInit EXCEPT !.pc = "done", !.h = p, !.starts = 1,
                                                !.prior = p - 1,
                                                !.result = "ok", !.nresp = 1]
                           ELSE NewInit]
    /\ close = [c \in CloseIds |-> NewClose]
    /\ job = [j \in JobIds |-> NewJob]
    /\ queue = EmptyQueue

Established(closes, sends) ==
    EstablishedWith([inits |-> 2, closes |-> closes, sends |-> sends, handles |-> 2,
                     history |-> FALSE, wide |-> FALSE])

InitQueue == Established(QCloses, QSends)

NextQueue ==
    \/ \E c \in CloseIds : CloseCall(c)
    \/ \E c \in CloseIds : CloseDone(c)
    \/ \E h \in Handles : OnReady(h)
    \/ \E h \in Handles : OnDisconnected(h)
    \/ \E j \in JobIds, kind \in Kinds, phone \in Phones \cup {""},
          message \in Messages \cup {""}, fileUrl \in FileUrls \cup {""} :
          SendCall(j, kind, phone, message, fileUrl)
    \/ \E j \in JobIds : FetchResolves(j)
    \/ \E j \in JobIds : FetchRejects(j)
    \/ \E j \in JobIds : TextSendResolves(j)
    \/ \E j \in JobIds : MediaSendResolves(j)
    \/ \E j \in JobIds : SendRejects(j)

SpecQueue == InitQueue /\ [][NextQueue]_vars

\* While a fetch or a send is pending, one of them is eventually settled
\* (which every pending one being settled eventually implies).
JobSettles(j) ==
    \/ FetchResolves(j)
    \/ FetchRejects(j)
    \/ TextSendResolves(j)
    \/ MediaSendResolves(j)
    \/ SendRejects(j)

InitFair == Established(FCloses, FSends)

SpecQueueFair ==
    InitFair /\ [][NextQueue]_vars /\ WF_vars(\E j \in JobIds : JobSettles(j))

\* Send requests that differ in phone and message, against the same
\* established session, every request remembered after its answer.
InitText ==
    EstablishedWith([inits |-> 2, closes |-> TCloses, sends |-> TSends, handles |-> 2,
                     history |-> TRUE, wide |-> TRUE])

SpecText == InitText /\ [][NextQueue]_vars


\* ====================================================================
\* The claims
\* ====================================================================

\* C1 (as stated): in every reachable state at most one handle has been
\* constructed and not torn down.  The retry loop constructs the next handle
\* without tearing down the one whose startup failed, and an /initialize that
\* finds both flags false replaces a handle without tearing it down.
C1_AtMostOneHandle == Cardinality({h \in Handles : Held(h)}) <= 1

\* C2: when /initialize arrives while isInitializing or isClientReady is set
\* and client holds a handle, that handle's teardown has been invoked and has
\* completed in every state in which the request has constructed a handle
\* (construction and the startup's invocation are one callback).
C2_TeardownBeforeCreate ==
    \A p \in InitIds :
        (init[p].pc \in {"startup", "delay", "done"} /\ init[p].busy
            /\ init[p].prior # NULL)
        => (hstat[init[p].prior] = "destroyed" /\ ndestroy[init[p].prior] >= 1)

C2_Witness ==
    \E p \in InitIds :
        /\ init[p].pc = "startup"
        /\ init[p].busy
        /\ init[p].prior # NULL
        /\ hstat[init[p].prior] = "destroyed"

\* C3: every /close, with or without a prior /initialize and whatever came
\* before it, completes with client null and the three flags reset, and a
\* /close invokes destroy() only on the handle client holds when it arrives.
CloseCompletes(c) == close[c].pc # "done" /\ close'[c].pc = "done"
CloseArrives(c) == close[c].pc = "idle" /\ close'[c].pc # "idle"

Running(j) == job[j].pc \in {"fetch", "text", "media"}
Waiting(j) == job[j].pc = "queued"
Started(j) == job[j].pc \in {"fetch", "text", "media", "ok", "fail"}
NRunning == Cardinality({j \in JobIds : Running(j)})
NWaiting == Cardinality({j \in JobIds : Waiting(j)})

\* C4: the queue never runs more than Concurrency jobs; its running count is
\* the number of jobs in flight; and of the n admitted jobs that have not
\* completed, min(n, Concurrency) are running and the rest are waiting.
C4_ConcurrencyLimit ==
    /\ NRunning <= Concurrency
    /\ queue.pending = NRunning
    /\ Len(queue.q) = NWaiting
    /\ NRunning + NWaiting >= Concurrency => NRunning = Concurrency
    /\ NRunning + NWaiting < Concurrency => NWaiting = 0

C4_Witness == NRunning = Concurrency /\ NWaiting = 2

\* C5: a send request with its parameters present that arrives while
\* isClientReady is false is answered 503 in the same step: the queue and
\* every other job are unchanged and no send is invoked for it.
C5_RejectedWhenNotReady ==
    [][\A j \in JobIds :
          (job[j].pc = "new" /\ job'[j].pc \notin {"new", "r400"} /\ ~isClientReady)
          => /\ job'[j].pc = "r503"
             /\ job'[j].sent = <<>>
             /\ queue' = queue
             /\ \A k \in JobIds \ {j} : job'[k] = job[k]
      ]_vars

C5_Witness ==
    \E j \in JobIds :
        job[j].pc = "r503" /\ NRunning = Concurrency /\ NWaiting = 1

\* C6: every /initialize invokes at most DefaultRetries startups and begins
\* one delay after every failed startup but the last: while a startup is
\* awaited or after the answer, delays = startups - 1; an answer of failure
\* comes after exactly DefaultRetries startups; and a delay is only ever
\* begun after fewer than DefaultRetries startups.
C6_RetryCounts ==
    \A p \in InitIds :
        LET r == init[p] IN
        /\ r.starts <= DefaultRetries
        /\ r.pc \in {"startup", "done"} => (r.delays + 1 = r.starts /\ r.starts = r.i + 1)
        /\ r.pc = "delay" => (r.delays = r.starts /\ r.starts < DefaultRetries)
        /\ (r.pc = "done" /\ r.result = "fail") =>
              (r.starts = DefaultRetries /\ r.delays + 1 = DefaultRetries)

C6_Witness ==
    \E p \in InitIds :
        /\ init[p].pc = "done" /\ init[p].result = "ok"
        /\ init[p].starts = DefaultRetries /\ init[p].delays = 2

\* C7 (as stated): when the last startup of an /initialize fails, the request
\* answers failure and leaves client null, the handle of the last attempt
\* torn down, and isClientReady and isInitializing false.
C7_ExhaustedIsAbsent ==
    [][\A p \in InitIds :
          (init[p].pc = "startup" /\ init'[p].pc = "done" /\ init'[p].result = "fail")
          => /\ client' = NULL
             /\ hstat'[init[p].h] = "destroyed"
             /\ ~isClientReady'
             /\ ~isInitializing'
      ]_vars

\* C8: jobs are started in the order of their submission (their numbers):
\* the waiting jobs stand in that order, and a job is never started while a
\* job submitted before it is still waiting.
C8_Fifo ==
    /\ \A m, n \in 1..Len(queue.q) : m < n => queue.q[m] < queue.q[n]
    /\ \A a, b \in JobIds : (a < b /\ Waiting(a)) => ~Started(b)

C8_Witness ==
    /\ Running(4)
    /\ queue.q = <<5>>
    /\ NRunning = Concurrency
    /\ \E j \in 1..3 : job[j].pc \in {"ok", "fail"}

\* C9: a step in which a running job fails (500) changes no other job,
\* except that waiting jobs may be started; the failed job's slot is free
\* again, so that the oldest waiting job is started in that very step; and,
\* provided every pending fetch and send is eventually settled, every waiting
\* job is eventually started.
JobFails(j) == Running(j) /\ job'[j].pc = "fail"

C9_FailureIsolated ==
    /\ [][\A j \in JobIds :
            JobFails(j) =>
              /\ \A k \in JobIds \ {j} :
                    \/ job'[k] = job[k]
                    \/ Waiting(k) /\ job'[k].pc # "queued"
              /\ queue'.pending = Cardinality({k \in JobIds : job'[k].pc \in
                                                  {"fetch", "text", "media"}})
              /\ queue.q # <<>> => job'[Head(queue.q)].pc # "queued"
       ]_vars
    /\ \A j \in JobIds : Waiting(j) ~> ~Waiting(j)

C9_Witness ==
    \E j, k \in JobIds :
        /\ j < k
        /\ job[j].pc = "fail"
        /\ k > Concurrency /\ Running(k)
        /\ NRunning = Concurrency

\* C10: a media job fetches, then sends the text, then sends the media, both
\* to <phone>@c.us: no send is invoked before the fetch resolves; a failed
\* fetch fails the job with no send; the media send is invoked only after the
\* text send resolved; and a media job that succeeded invoked exactly two.
C10_MediaOrder ==
    \A j \in JobIds :
        job[j].kind = "media" =>
        LET r == job[j] IN
        /\ \A n \in 1..Len(r.sent) : r.sent[n].to = r.phone \o "@c.us"
        /\ r.got = "none" => (r.sent = <<>> /\ r.pc \in {"queued", "fetch"})
        /\ r.got = "failed" => (r.sent = <<>> /\ r.pc = "fail")
        /\ Len(r.sent) <= 2
        /\ Len(r.sent) >= 1 => r.sent[1].what = "text"
        /\ Len(r.sent) = 2 => (r.sent[2].what = "media" /\ r.sent[1].st = "ok")
        /\ r.pc = "ok" => (Len(r.sent) = 2 /\ r.sent[2].st = "ok")

C10_Witness ==
    \E j \in JobIds :
        job[j].kind = "media" /\ job[j].pc = "ok" /\ Len(job[j].sent) = 2

C12_DisconnectedIsAbsent ==
    [][\A h \in Handles :
          OnDisconnected(h) =>
              /\ ~isClientReady'
              /\ qrCodeData' = NoQr
              /\ client' = NULL
              /\ \A k \in Handles : hstat'[k] \notin {"starting", "up"}
      ]_vars

\* C13 (as stated): in every reachable state where isClientReady is true, and
\* in every one where the session is Absent after a /close (a /close has
\* completed, client is null and no /initialize is in flight), qrCodeData is
\* null.  A toDataURL awaited by the 'qr' callback that resolves after the
\* ready signal or after the /close assigns qrCodeData all the same.
InFlight(p) == init[p].pc \in {"closing", "preCreate", "startup", "delay"}

C13_QrOnlyWhileAwaitingScan ==
    /\ isClientReady => qrCodeData = NoQr
    /\ (client = NULL /\ (\E c \in CloseIds : close[c].pc = "done")
           /\ \A p \in InitIds : ~InFlight(p))
       => qrCodeData = NoQr

\* C14: an /initialize inside its retry delay is not stopped by a /close:
\* whatever completes meanwhile, while there is a handle left to construct the
\* request can go on; no step but its own changes it; and its next step
\* constructs a new handle, makes it client and invokes its startup, so that
\* client is non-null again with no new /initialize.
C14_CloseDoesNotStopRetry ==
    /\ [](\A p \in InitIds :
            (init[p].pc = "delay" /\ nextHandle <= lim.handles)
            => ENABLED CreateClient(p))
    /\ [][\A p \in InitIds :
            init[p].pc = "delay" =>
              \/ init'[p] = init[p]
              \/ /\ init'[p].pc = "startup"
                 /\ client' # NULL
                 /\ client' = init'[p].h
                 /\ hstat[client'] = "none"
                 /\ hstat'[client'] = "starting"
                 /\ \A q \in InitIds \ {p} : init'[q] = init[q]
       ]_vars

C14_Witness ==
    \E p \in InitIds, c \in CloseIds :
        /\ init[p].pc = "startup" /\ init[p].delays = 1
        /\ \A q \in InitIds \ {p} : init[q].pc = "idle"
        /\ close[c].pc = "done" /\ close[c].tore /\ close[c].delayed
        /\ client = init[p].h /\ hstat[client] = "starting"
        /\ ~isInitializing

\* C15: the auth_failure signal of a handle, in whatever state it arrives,
\* leaves client, isClientReady, isInitializing and qrCodeData as they were
\* (and every handle, request and job too).
C15_AuthFailureChangesNothing ==
    [][\A h \in Handles :
          OnAuthFailure(h) =>
              /\ client' = client
              /\ isClientReady' = isClientReady
              /\ isInitializing' = isInitializing
              /\ qrCodeData' = qrCodeData
              /\ UNCHANGED <<handleVars, init, close, job, queue>>
      ]_vars

\* A state in which the signal arrives, and which it leaves: a handle being
\* started that already signalled ready, with a challenge payload held.
C15_Witness ==
    \E h \in Handles :
        /\ ENABLED OnAuthFailure(h)
        /\ client = h
        /\ isClientReady /\ isInitializing /\ qrCodeData = DataUrl

\* C16 (as stated): whenever isClientReady is true client is a handle, and a
\* ready signal sets isClientReady only when it comes from the handle client
\* holds.  The 'ready' callback sets the flag whichever handle it was
\* registered on: one that a later /initialize replaced without closing it
\* signals ready as well, also after a /close has set client to null.
C16_ReadyIsCurrentHandle ==
    /\ [](isClientReady => client # NULL)
    /\ [][\A h \in Handles : (OnReady(h) /\ ~isClientReady) => client = h]_vars

\* C17 (as stated): every client.sendMessage call a job makes (jobs are only
\* admitted while isClientReady is true) is made on a handle, and on one whose
\* teardown has not begun.  A job reads client when it runs, not when it is
\* admitted: a /close between the two leaves it a handle in teardown or null,
\* and isClientReady stays true while a /close awaits destroy().
C17_SendOnLiveHandle ==
    \A j \in JobIds :
        \A n \in 1..Len(job[j].sent) :
            /\ job[j].sent[n].h # NULL
            /\ job[j].sent[n].live

\* C18 (as stated): every /initialize request is answered exactly once: it
\* never writes a second response, and it has written one when its handler
\* returns.  In index.js the 'qr' callback answers on the request's res each
\* time a challenge is encoded, and the handler answers again when the
\* startup resolves or rejects.
C18_OneResponse ==
    \A p \in InitIds :
        /\ init[p].nresp <= 1
        /\ init[p].pc = "done" => init[p].nresp = 1

\* C19 (as stated): destroy() is invoked at most once on any handle, and a
\* closeWhatsAppSession (of a /close, or the one an /initialize begins with)
\* that sets client to null after its destroy() finds in client the handle it
\* tore down.  Two overlapping closes both read the same client before either
\* clears it, and `client = null` runs after the await whatever client holds
\* by then.
InitializeCloses(p) == init[p].pc = "closing" /\ init'[p].pc # "closing"

C19_TeardownOnce ==
    /\ [](\A h \in Handles : ndestroy[h] <= 1)
    /\ [][/\ \A c \in CloseIds :
               (CloseCompletes(c) /\ close[c].tore /\ client # NULL)
               => client = close[c].h
          /\ \A p \in InitIds :
               (InitializeCloses(p) /\ client # NULL) => client = init[p].h
       ]_vars

\* C20 (as stated): isInitializing is true while an /initialize is awaiting
\* chromium.executablePath, a startup or a retry delay, and false when no
\* /initialize is in flight.  Every closeWhatsAppSession and the finally of
\* every /initialize set it to false, whatever other /initialize is in flight.
C20_InitializingIffInFlight ==
    /\ (\E p \in InitIds : init[p].pc \in {"preCreate", "startup", "delay"})
       => isInitializing
    /\ isInitializing => \E p \in InitIds : InFlight(p)

=============================================================================
